---- MODULE Spec2Model ----
(***************************************************************************)
(* Model of src/main.py, the dessert-shop cost manager.                    *)
(*                                                                         *)
(* The program is a Streamlit script: every user interaction re-runs       *)
(* main(), which calls initialize_data, manage_ingredients, manage_items,  *)
(* manage_time_cost and calculate_selling_price_and_profit in this order   *)
(* (lines 503-543).  At most one button is pressed per run.  The model has *)
(* one action per (function, pressed button) and a program counter pc that *)
(* walks through the functions of one run.                                 *)
(*                                                                         *)
(* Numbers.  The program computes with floats; the model computes with     *)
(* exact fixed-point integers:                                             *)
(*   - money (unit_price, item_cost, suggested_price, profit, totals) is   *)
(*     counted in thousandths of the currency unit, and the prices entered *)
(*     are whole currency units (multiples of 1000);                       *)
(*   - the per-minute rate and time_ratio_percent are counted in tenths of *)
(*     a percent, so the default rate 0.1 is 1 and "ratio / 100" of the    *)
(*     code is a division by 1000, which is exact on these values;         *)
(*   - the pandas missing value NaN is the value NaN below; arithmetic     *)
(*     propagates it, groupby-sum skips it and fillna(0) replaces it.      *)
(* Names (ingredient and item names) are non-numeric strings, the unit     *)
(* column of the ingredient table is not modelled (nothing reads it).      *)
(***************************************************************************)
EXTENDS Integers, Sequences, FiniteSets, TLC

\* ------------------------------------------------------------------ bounds
MaxPrice == 1
MaxQty == 1
MaxMinutes == 1
MaxRate == 1
MaxOrderQty == 1
MaxLines == 2

\* ------------------------------------------------------------- input sets
\* names the user can type or select; the second list is in sort order
\* (groupby sorts its keys)
IngredientNames == {"flour", "sugar"}
ItemNames == <<"cake", "cookie">>
ItemNameSet == {ItemNames[i] : i \in 1..Len(ItemNames)}
\* the text input of the item form may be left empty
TypedItemNames == ItemNameSet \cup {""}
\* number inputs have min_value = 0
Prices == {k * 1000 : k \in 0..MaxPrice}
Quantities == 0..MaxQty
Minutes == 0..MaxMinutes
Rates == 0..MaxRate
OrderQuantities == 0..MaxOrderQty

\* pandas NaN (a left merge without a match, an absent column after concat)
NaN == -1
\* the rate written by initialize_data: 0.1 percent per minute
DefaultRate == 1

VARIABLES
    pc,           \* which function of the run is next; "idle" between runs
    event,        \* the button pressed in this run, with its inputs
    dropped,      \* rows the add/update of this run replaced (drop_duplicates)
    load_result,  \* outcome of load_data(UNITS_FILE) in initialize_default_data
    ingredients,  \* INGREDIENTS_FILE: sequence of [name, unit_price]
    items,        \* ITEMS_FILE: sequence of [item_name, ingredient_name, quantity]
    time_cost,    \* TIME_COST_FILE: [profit_col, rows]
    rate,         \* TIME_COST_RATIO_FILE: per-minute percentage
    displayed,    \* the time-cost table the page shows (<<>>: the warning)
    quantities,   \* the selections of the totalizer, in selection order
    results       \* the result rows of the totalizer

vars == <<pc, event, dropped, load_result, ingredients, items, time_cost, rate,
          displayed, quantities, results>>

stores == <<ingredients, items, time_cost, rate>>

NoEvent == <<"none">>
\* a run handles one widget event: once a button is pressed, no other is
clicked == event # NoEvent

\* ------------------------------------------------------- NaN arithmetic
Mul(a, b) == IF a = NaN \/ b = NaN THEN NaN ELSE a * b
Add(a, b) == IF a = NaN \/ b = NaN THEN NaN ELSE a + b
Sub(a, b) == IF a = NaN \/ b = NaN THEN NaN ELSE a - b
\* x * (ratio / 100), ratio in tenths of a percent
PercentOf(x, ratio) == IF x = NaN \/ ratio = NaN THEN NaN ELSE (x * ratio) \div 1000
FillNa(x) == IF x = NaN THEN 0 ELSE x

RECURSIVE SumPropagateNa(_)
\* a sum that does not skip the missing value: one NaN makes the sum NaN
SumPropagateNa(s) ==
    IF s = <<>> THEN 0
    ELSE Add(Head(s), SumPropagateNa(Tail(s)))

RECURSIVE SumSkipNa(_)
\* Series.sum(): skipna = True, an empty or all-NaN series sums to 0
SumSkipNa(s) ==
    IF s = <<>> THEN 0
    ELSE (IF Head(s) = NaN THEN 0 ELSE Head(s)) + SumSkipNa(Tail(s))

RECURSIVE Concat(_)
\* flattens a sequence of sequences
Concat(ss) == IF ss = <<>> THEN <<>> ELSE Head(ss) \o Concat(Tail(ss))

Map(f(_), s) == [i \in 1..Len(s) |-> f(s[i])]

Filter(s, keep(_)) == SelectSeq(s, keep)

\* ------------------------------------------------------------- load_data
FileKinds == {"utf8", "big5", "undecodable", "missing", "no_columns"}

\* pd.read_csv(file, encoding): "records", or the exception it raises
ReadCsv(kind, encoding) ==
    CASE kind = "missing" -> "FileNotFoundError"
      [] kind = "no_columns" -> "EmptyDataError"
      [] kind = "utf8" -> "records"
      [] kind = "big5" -> IF encoding = "big5" THEN "records" ELSE "UnicodeDecodeError"
      [] kind = "undecodable" -> "UnicodeDecodeError"

\* load_data: "records", "empty" (pd.DataFrame()) or "raised"
LoadData(kind) ==
    LET first == ReadCsv(kind, "utf-8-sig") IN
    IF first = "records" THEN "records"
    ELSE IF first = "UnicodeDecodeError"
         THEN \* the fallback runs inside the handler: no except clause covers it
              (IF ReadCsv(kind, "big5") = "records" THEN "records" ELSE "raised")
         ELSE "empty"

\* ---------------------------------------------------------- cost deriver
\* items.merge(ingredients, on=ingredient name, how="left") and the line cost
\* quantity * unit_price, for one recipe line: one merged row per matching
\* ingredient row, or one row with a NaN price if there is none
LineCosts(line, ings) ==
    LET match == Filter(ings, LAMBDA g : g.name = line.ingredient_name) IN
    IF match = <<>> THEN <<Mul(line.quantity, NaN)>>
    ELSE Map(LAMBDA g : Mul(line.quantity, g.unit_price), match)

\* the "line cost" column of the merged table, restricted to one item
ItemLineCosts(its, ings, item) ==
    Concat(Map(LAMBDA l : LineCosts(l, ings),
               Filter(its, LAMBDA l : l.item_name = item)))

\* merged.groupby(item name)[line cost].sum().reset_index():
\* one row per item that has a recipe line, in sort order
ComputeItemCosts(its, ings) ==
    LET present == Filter(ItemNames, LAMBDA n : \E i \in 1..Len(its) : its[i].item_name = n)
    IN  Map(LAMBDA n : [item_name |-> n, item_cost |-> SumSkipNa(ItemLineCosts(its, ings, n))],
            present)

\* the item_cost a left merge with item_costs gives a time-cost row
CostOf(item_costs, item) ==
    LET match == Filter(item_costs, LAMBDA c : c.item_name = item) IN
    IF match = <<>> THEN NaN ELSE match[1].item_cost

SuggestedPrice(cost, ratio) == Add(cost, PercentOf(cost, ratio))

\* a refresh that marks up the suggested price the row had instead of the
\* item cost
RefreshRowCompounding(row, item_costs, r) ==
    LET cost == CostOf(item_costs, row.item_name)
        ratio == Mul(row.production_minutes, r)
    IN  [row EXCEPT !.item_cost = cost,
                    !.time_ratio_percent = ratio,
                    !.suggested_price = SuggestedPrice(row.suggested_price, ratio)]

\* a time-cost row recomputed against item_costs and the rate; the profit
\* column, if the table has one, is carried along as it is
RefreshRow(row, item_costs, r) ==
    LET cost == CostOf(item_costs, row.item_name)
        ratio == Mul(row.production_minutes, r)
    IN  [row EXCEPT !.item_cost = cost,
                    !.time_ratio_percent = ratio,
                    !.suggested_price = SuggestedPrice(cost, ratio)]

RefreshTable(tc, item_costs, r) ==
    [tc EXCEPT !.rows = Map(LAMBDA row : RefreshRow(row, item_costs, r), tc.rows)]

\* the time-cost table has two rows with the same item name
HasDuplicates(rows) ==
    \E i, j \in 1..Len(rows) : i # j /\ rows[i].item_name = rows[j].item_name

\* update_all_time_costs, line 425: with validate="one_to_one" the merge
\* raises MergeError on a duplicated item name
MergeRaises(tc, its, ings) ==
    its # <<>> /\ ings # <<>> /\ tc.rows # <<>> /\ HasDuplicates(tc.rows)

\* a bulk refresh whose merge is an inner one: a record whose item has no
\* recipe line is dropped
UpdateAllTimeCostsInnerMerge(tc, its, ings, r) ==
    IF its # <<>> /\ ings # <<>>
    THEN LET item_costs == ComputeItemCosts(its, ings) IN
         IF tc.rows # <<>>
         THEN RefreshTable(
                [tc EXCEPT !.rows =
                    Filter(tc.rows, LAMBDA row : CostOf(item_costs, row.item_name) # NaN)],
                item_costs, r)
         ELSE [profit_col |-> FALSE,
               rows |-> Map(LAMBDA c : [item_name |-> c.item_name,
                                        production_minutes |-> 0,
                                        time_ratio_percent |-> 0,
                                        item_cost |-> c.item_cost,
                                        suggested_price |-> c.item_cost,
                                        profit |-> NaN],
                            item_costs)]
    ELSE tc

\* update_all_time_costs, as a function of what it loads; the result is what
\* it leaves in TIME_COST_FILE (when the merge does not raise)
UpdateAllTimeCosts(tc, its, ings, r) ==
    IF its # <<>> /\ ings # <<>>
    THEN LET item_costs == ComputeItemCosts(its, ings) IN
         IF tc.rows # <<>>
         THEN RefreshTable(tc, item_costs, r)
         ELSE [profit_col |-> FALSE,
               rows |-> Map(LAMBDA c : [item_name |-> c.item_name,
                                        production_minutes |-> 0,
                                        time_ratio_percent |-> 0,
                                        item_cost |-> c.item_cost,
                                        suggested_price |-> c.item_cost,
                                        profit |-> NaN],
                            item_costs)]
    ELSE tc

\* manage_time_cost, lines 311-330: the refresh every run does before the
\* table is shown; the result is saved when it differs from what was loaded
ViewRefresh(tc, its, ings, r) ==
    IF its # <<>> /\ ings # <<>> /\ tc.rows # <<>>
    THEN RefreshTable(tc, ComputeItemCosts(its, ings), r)
    ELSE tc

\* an add/update that appends without dropping the record of the item
DropDuplicatesOmitted(rows) == rows

RECURSIVE DropDuplicatesKeepLast(_)
\* drop_duplicates(subset=[item name], keep="last")
DropDuplicatesKeepLast(rows) ==
    IF rows = <<>> THEN <<>>
    ELSE IF \E j \in 2..Len(rows) : rows[j].item_name = Head(rows).item_name
         THEN DropDuplicatesKeepLast(Tail(rows))
         ELSE <<Head(rows)>> \o DropDuplicatesKeepLast(Tail(rows))

\* manage_time_cost, lines 340-357: the submitted form with a production time
\* > 0; a time of 0 changes nothing
UpsertTimeCost(tc, item_costs, item, minutes, r) ==
    IF minutes > 0
    THEN LET ratio == Mul(minutes, r)
             cost == CostOf(item_costs, item)
             updated == [item_name |-> item,
                         production_minutes |-> minutes,
                         time_ratio_percent |-> ratio,
                         item_cost |-> cost,
                         suggested_price |-> SuggestedPrice(cost, ratio),
                         profit |-> NaN]
         IN  [tc EXCEPT !.rows = DropDuplicatesKeepLast(tc.rows \o <<updated>>)]
    ELSE tc

\* manage_time_cost, lines 366-378: profit = suggested_price - item_cost, the
\* columns in display order, fillna(0)
ShowRow(row) ==
    [item_name |-> row.item_name,
     production_minutes |-> FillNa(row.production_minutes),
     time_ratio_percent |-> FillNa(row.time_ratio_percent),
     item_cost |-> FillNa(row.item_cost),
     suggested_price |-> FillNa(row.suggested_price),
     profit |-> FillNa(Sub(row.suggested_price, row.item_cost))]

Show(tc) == Map(ShowRow, tc.rows)

\* manage_time_cost, lines 387-391: the table that is shown, without the
\* rows of delete_name, is what is saved: profit column and zeros included
DeleteTimeCost(shown, delete_name) ==
    [profit_col |-> TRUE,
     rows |-> Filter(shown, LAMBDA row : row.item_name # delete_name)]

\* -------------------------------------------------------- order totalizer
\* calculate_selling_price_and_profit, lines 470-487
TotalizeLine(sel, rows) ==
    LET item_data == Filter(rows, LAMBDA row : row.item_name = sel.item_name)
        suggested_price == item_data[1].suggested_price
        cost_value == item_data[1].item_cost
        total_price == Mul(suggested_price, sel.quantity)
        total_cost == Mul(cost_value, sel.quantity)
    IN  [item_name |-> sel.item_name,
         quantity |-> sel.quantity,
         total_cost |-> total_cost,
         total_price |-> total_price,
         total_profit |-> Sub(total_price, total_cost)]

\* a totalizer that gives a selection with quantity 0 a line of zeros
TotalizeKeepZero(sels, rows) ==
    Map(LAMBDA sel : TotalizeLine(sel, rows), sels)

Totalize(sels, rows) ==
    Map(LAMBDA sel : TotalizeLine(sel, rows),
        Filter(sels, LAMBDA sel : sel.quantity > 0))

\* what the multiselect and the quantity inputs can hold: item names of the
\* table without repetition, in the order they were selected
Selections(names) ==
    {<<>>}
    \cup {<<[item_name |-> a, quantity |-> q]>> : a \in names, q \in OrderQuantities}
    \cup {<<[item_name |-> a, quantity |-> q], [item_name |-> b, quantity |-> p]>> :
            <<a, b>> \in {ab \in names \X names : ab[1] # ab[2]},
            <<q, p>> \in OrderQuantities \X OrderQuantities}

RowNames(rows) == {rows[i].item_name : i \in 1..Len(rows)}

\* ------------------------------------------------------------------ state
Init ==
    /\ pc = "idle"
    /\ event = NoEvent
    /\ dropped = 0
    /\ load_result = "none"
    /\ ingredients = <<>>
    /\ items = <<>>
    /\ time_cost = [profit_col |-> FALSE, rows |-> <<>>]
    /\ rate = DefaultRate
    /\ displayed = <<>>
    /\ quantities = <<>>
    /\ results = <<>>

\* main, lines 507-508, and initialize_default_data: a run starts with an
\* empty page and load_data(UNITS_FILE); the units file is edited outside the
\* program, so its bytes are any of FileKinds.  An exception ends the run.
InitializeData ==
    /\ pc = "idle"
    /\ \E kind \in FileKinds :
         /\ load_result' = LoadData(kind)
         /\ pc' = IF LoadData(kind) = "raised" THEN "idle" ELSE "ingredients"
    /\ event' = NoEvent
    /\ dropped' = 0
    /\ displayed' = <<>>
    /\ quantities' = <<>>
    /\ results' = <<>>
    /\ UNCHANGED stores

\* ----------------------------------------------------- manage_ingredients
\* the part of manage_ingredients every action of it shares
IngredientsDone ==
    /\ pc = "ingredients"
    /\ pc' = "items"
    /\ load_result' = "none"
    /\ UNCHANGED <<dropped, items, time_cost, rate, displayed, quantities, results>>

\* lines 136-146
UpsertIngredient(ings, name, price) ==
    IF name # "" /\ price > 0
    THEN IF \E i \in 1..Len(ings) : ings[i].name = name
         THEN Map(LAMBDA g : IF g.name = name THEN [g EXCEPT !.unit_price = price] ELSE g, ings)
         ELSE ings \o <<[name |-> name, unit_price |-> price]>>
    ELSE ings

IngredientsView ==
    /\ IngredientsDone
    /\ UNCHANGED <<ingredients, event>>

IngredientUpsert(name, price) ==
    /\ IngredientsDone
    /\ ~clicked
    /\ event' = <<"ingredient_upsert", name, price>>
    /\ ingredients' = UpsertIngredient(ingredients, name, price)

\* lines 157-161
IngredientDelete(delete_name) ==
    /\ IngredientsDone
    /\ ~clicked
    /\ ingredients # <<>>
    /\ \E i \in 1..Len(ingredients) : ingredients[i].name = delete_name
    /\ event' = <<"ingredient_delete", delete_name>>
    /\ ingredients' = Filter(ingredients, LAMBDA g : g.name # delete_name)

\* ----------------------------------------------------------- manage_items
ItemsDone ==
    /\ pc = "items"
    /\ pc' = "time_cost"
    /\ UNCHANGED <<dropped, load_result, displayed, quantities, results>>

\* a submitted item form that is not validated
UpsertItemUnchecked(its, item_name, ingredient_name, quantity) ==
    IF \E i \in 1..Len(its) : its[i].item_name = item_name
                              /\ its[i].ingredient_name = ingredient_name
    THEN Map(LAMBDA l : IF l.item_name = item_name /\ l.ingredient_name = ingredient_name
                        THEN [l EXCEPT !.quantity = quantity] ELSE l, its)
    ELSE its \o <<[item_name |-> item_name,
                   ingredient_name |-> ingredient_name,
                   quantity |-> quantity]>>

\* lines 216-237: the submitted item form
UpsertItem(its, item_name, ingredient_name, quantity) ==
    IF item_name # "" /\ quantity > 0
    THEN IF \E i \in 1..Len(its) : its[i].item_name = item_name
                                   /\ its[i].ingredient_name = ingredient_name
         THEN Map(LAMBDA l : IF l.item_name = item_name /\ l.ingredient_name = ingredient_name
                             THEN [l EXCEPT !.quantity = quantity] ELSE l, its)
         ELSE its \o <<[item_name |-> item_name,
                        ingredient_name |-> ingredient_name,
                        quantity |-> quantity]>>
    ELSE its

ItemsView ==
    /\ ItemsDone
    /\ UNCHANGED <<stores, event>>

ItemUpsert(item_name, ingredient_name, quantity) ==
    /\ ItemsDone
    /\ ~clicked
    \* the select box offers the ingredients of the table (lines 208-216)
    /\ \E i \in 1..Len(ingredients) : ingredients[i].name = ingredient_name
    \* the recipe-line table is unbounded in the program; the model caps it
    /\ Len(UpsertItem(items, item_name, ingredient_name, quantity)) <= MaxLines
    /\ event' = <<"item_upsert", item_name, ingredient_name, quantity>>
    /\ items' = UpsertItem(items, item_name, ingredient_name, quantity)
    /\ UNCHANGED <<ingredients, time_cost, rate>>

\* lines 254-258
ItemDelete(delete_item) ==
    /\ ItemsDone
    /\ ~clicked
    /\ \E i \in 1..Len(items) : items[i].item_name = delete_item
    /\ event' = <<"item_delete", delete_item>>
    /\ items' = Filter(items, LAMBDA l : l.item_name # delete_item)
    /\ UNCHANGED <<ingredients, time_cost, rate>>

\* ------------------------------------------------------- manage_time_cost
TimeCostDone ==
    /\ pc = "time_cost"
    /\ UNCHANGED <<load_result, ingredients, items, quantities, results>>

\* no button of manage_time_cost is pressed: refresh and show
TimeCostView ==
    /\ TimeCostDone
    /\ pc' = "selling"
    /\ LET tc == ViewRefresh(time_cost, items, ingredients, rate) IN
         /\ time_cost' = tc
         /\ displayed' = Show(tc)
    /\ dropped' = 0
    /\ UNCHANGED <<rate, event>>

\* lines 300-308, then the rest of the function with the new rate
SaveRate(new_rate) ==
    /\ TimeCostDone
    /\ ~clicked
    /\ rate' = new_rate
    /\ event' = <<"save_rate", new_rate>>
    /\ dropped' = 0
    /\ IF MergeRaises(time_cost, items, ingredients)
       THEN /\ pc' = "idle"
            /\ UNCHANGED <<time_cost, displayed>>
       ELSE /\ pc' = "selling"
            /\ LET updated == UpdateAllTimeCosts(time_cost, items, ingredients, new_rate)
                   tc == ViewRefresh(updated, items, ingredients, new_rate)
               IN  /\ time_cost' = tc
                   /\ displayed' = Show(tc)

\* lines 333-357: the form exists when there are recipe lines and ingredients
\* and offers the items that have a recipe line
TimeCostUpsert(item_name, production_time) ==
    /\ TimeCostDone
    /\ ~clicked
    /\ items # <<>> /\ ingredients # <<>>
    /\ item_name \in RowNames(ComputeItemCosts(items, ingredients))
    /\ pc' = "selling"
    /\ event' = <<"time_cost_upsert", item_name, production_time>>
    /\ LET refreshed == ViewRefresh(time_cost, items, ingredients, rate)
           tc == UpsertTimeCost(refreshed, ComputeItemCosts(items, ingredients),
                                item_name, production_time, rate)
       IN  /\ time_cost' = tc
           /\ displayed' = Show(tc)
           /\ dropped' = IF production_time > 0
                         THEN Len(refreshed.rows) + 1 - Len(tc.rows) ELSE 0
    /\ UNCHANGED rate

\* lines 387-405: the select box offers the items of the shown table
TimeCostDelete(delete_name) ==
    /\ TimeCostDone
    /\ ~clicked
    /\ LET refreshed == ViewRefresh(time_cost, items, ingredients, rate)
           tc == DeleteTimeCost(Show(refreshed), delete_name)
       IN  /\ delete_name \in RowNames(Show(refreshed))
           /\ time_cost' = tc
           /\ displayed' = Show(tc)
    /\ pc' = "selling"
    /\ event' = <<"time_cost_delete", delete_name>>
    /\ dropped' = 0
    /\ UNCHANGED rate

\* ------------------------------- calculate_selling_price_and_profit
SellingDone ==
    /\ pc = "selling"
    /\ pc' = "idle"
    /\ UNCHANGED <<dropped, load_result, stores, displayed>>

SellingView ==
    /\ SellingDone
    /\ quantities' = <<>>
    /\ results' = <<>>
    /\ UNCHANGED event

\* lines 456-489: the calculate button
Calculate(selected) ==
    /\ SellingDone
    /\ ~clicked
    /\ time_cost.rows # <<>>
    /\ selected \in Selections(RowNames(time_cost.rows))
    /\ event' = <<"calculate">>
    /\ quantities' = selected
    /\ results' = Totalize(selected, time_cost.rows)

Next ==
    \/ InitializeData
    \/ IngredientsView
    \/ \E name \in IngredientNames, price \in Prices : IngredientUpsert(name, price)
    \/ \E name \in IngredientNames : IngredientDelete(name)
    \/ ItemsView
    \/ \E item \in TypedItemNames, ing \in IngredientNames, q \in Quantities :
         ItemUpsert(item, ing, q)
    \/ \E item \in ItemNameSet : ItemDelete(item)
    \/ TimeCostView
    \/ \E r \in Rates : SaveRate(r)
    \/ \E item \in ItemNameSet, m \in Minutes : TimeCostUpsert(item, m)
    \/ \E item \in ItemNameSet : TimeCostDelete(item)
    \/ SellingView
    \/ \E selected \in Selections(ItemNameSet) : Calculate(selected)

Spec == Init /\ [][Next]_vars

\* ------------------------------------------------------------------ claims
\* the table of manage_time_cost is on the page
Shown == pc \in {"selling", "idle"} /\ displayed # <<>>

\* the recipe lines of an item whose ingredient is in the ingredient table
MatchedLines(item) ==
    {i \in 1..Len(items) :
        /\ items[i].item_name = item
        /\ \E j \in 1..Len(ingredients) : ingredients[j].name = items[i].ingredient_name}

\* a recipe line of the item names an ingredient that is not in the table
HasUnmatchedLine(item) ==
    \E i \in 1..Len(items) :
        /\ items[i].item_name = item
        /\ \A j \in 1..Len(ingredients) : ingredients[j].name # items[i].ingredient_name

PriceNow(ingredient_name) ==
    (CHOOSE g \in {ingredients[j] : j \in 1..Len(ingredients)} :
        g.name = ingredient_name).unit_price

RECURSIVE SumOver(_, _)
SumOver(f(_), S) ==
    IF S = {} THEN 0
    ELSE LET x == CHOOSE y \in S : TRUE IN f(x) + SumOver(f, S \ {x})

\* sum of quantity x unit_price over the lines of the item, at the prices of
\* the ingredient table as it is now
CurrentItemCost(item) ==
    SumOver(LAMBDA i : items[i].quantity * PriceNow(items[i].ingredient_name),
            MatchedLines(item))

\* C1: whenever the time-cost table is shown, every shown record's item_cost
\* is the sum of quantity x unit_price over the recipe lines that share its
\* item_name now, at the ingredient prices now; no stale cost is shown, also
\* when the ingredient table or the recipe-line table is empty.
C1_ShownCostIsCurrent ==
    Shown => \A i \in 1..Len(displayed) :
                displayed[i].item_cost = CurrentItemCost(displayed[i].item_name)

\* C2: when the rate is saved, every record that existed before is, in the
\* record set that results, refreshed to time_ratio_percent =
\* production_minutes x new rate and suggested_price = item_cost +
\* item_cost x time_ratio_percent / 100.
C2_SaveRateRefreshesAll ==
    [][(pc = "time_cost" /\ event'[1] = "save_rate") =>
         \A i \in 1..Len(time_cost.rows) :
            \E j \in 1..Len(time_cost'.rows) :
               LET row == time_cost'.rows[j] IN
               /\ row.item_name = time_cost.rows[i].item_name
               /\ row.time_ratio_percent = Mul(row.production_minutes, rate')
               /\ row.suggested_price =
                    Add(row.item_cost, PercentOf(row.item_cost, row.time_ratio_percent))]_vars

\* the item costs have just been computed by manage_time_cost: there are
\* recipe lines and ingredients, and the table was refreshed or added to
CostsComputed ==
    pc = "selling" /\ items # <<>> /\ ingredients # <<>>
    /\ event[1] # "time_cost_delete"

\* C3 as stated: when a recipe line of an item names an ingredient that is
\* not in the ingredient table, the item cost computed for the item is the
\* missing value.
C3_UnmatchedLineGivesMissingCost ==
    CostsComputed =>
        \A i \in 1..Len(time_cost.rows) :
            HasUnmatchedLine(time_cost.rows[i].item_name)
                => time_cost.rows[i].item_cost = NaN

\* C3 as amended: when a recipe line of an item names an ingredient that is
\* not in the ingredient table, the item cost computed for the item is a
\* number: the sum of quantity x unit_price over the item's other lines, the
\* unmatched line counting as zero.
C3_UnmatchedLineCountsAsZero ==
    CostsComputed =>
        \A i \in 1..Len(time_cost.rows) :
            HasUnmatchedLine(time_cost.rows[i].item_name)
                => /\ time_cost.rows[i].item_cost # NaN
                   /\ time_cost.rows[i].item_cost = CurrentItemCost(time_cost.rows[i].item_name)

\* an item with a matched and an unmatched line has its cost computed
C3_Witness ==
    /\ CostsComputed
    /\ \E i \in 1..Len(time_cost.rows) :
          /\ HasUnmatchedLine(time_cost.rows[i].item_name)
          /\ MatchedLines(time_cost.rows[i].item_name) # {}
          /\ time_cost.rows[i].item_cost > 0

\* C4: item_name is a unique key of the persisted time-cost records: no two
\* records share an item_name, and an accepted add/update leaves exactly one
\* record of the item, with the submitted production time, replacing the
\* record the item had instead of adding a second one.
C4_ItemNameIsUniqueKey ==
    /\ [](\A i, j \in 1..Len(time_cost.rows) :
            time_cost.rows[i].item_name = time_cost.rows[j].item_name => i = j)
    /\ [][(pc = "time_cost" /\ event'[1] = "time_cost_upsert" /\ event'[3] > 0) =>
            LET before == {i \in 1..Len(time_cost.rows) :
                             time_cost.rows[i].item_name = event'[2]}
                after == {j \in 1..Len(time_cost'.rows) :
                             time_cost'.rows[j].item_name = event'[2]}
            IN  /\ Cardinality(after) = 1
                /\ \A j \in after : time_cost'.rows[j].production_minutes = event'[3]
                /\ Len(time_cost'.rows) =
                     Len(time_cost.rows) + (IF before = {} THEN 1 ELSE 0)]_vars

\* an add/update has replaced the record of its item, another record is kept
C4_Witness ==
    /\ pc = "selling"
    /\ event[1] = "time_cost_upsert"
    /\ dropped = 1
    /\ Len(time_cost.rows) = 2
    /\ time_cost.rows[2].item_name = event[2]
    /\ time_cost.rows[2].production_minutes = event[3]

\* position of the selection of an item in the selections
SelectionIndex(item) ==
    CHOOSE i \in 1..Len(quantities) : quantities[i].item_name = item

\* C5: the totalizer returns one line per selection with quantity > 0, in
\* selection order, none for quantity 0; each line has total_cost = quantity
\* x item_cost, total_price = quantity x suggested_price, total_profit =
\* total_price - total_cost; (cookie, 3) at cost 10 and price 106 gives
\* 30, 318 and 288.
C5_TotalizerLines ==
    /\ pc = "idle" =>
        /\ Len(results) = Cardinality({i \in 1..Len(quantities) : quantities[i].quantity > 0})
        /\ \A k \in 1..Len(results) :
              /\ \E i \in 1..Len(quantities) :
                    /\ quantities[i].item_name = results[k].item_name
                    /\ quantities[i].quantity = results[k].quantity
                    /\ quantities[i].quantity > 0
              /\ \A j \in 1..Len(time_cost.rows) :
                    time_cost.rows[j].item_name = results[k].item_name =>
                       /\ results[k].total_cost =
                            Mul(results[k].quantity, time_cost.rows[j].item_cost)
                       /\ results[k].total_price =
                            Mul(results[k].quantity, time_cost.rows[j].suggested_price)
                       /\ results[k].total_profit =
                            Sub(results[k].total_price, results[k].total_cost)
        /\ \A k, l \in 1..Len(results) :
              k < l => SelectionIndex(results[k].item_name) < SelectionIndex(results[l].item_name)
    /\ Totalize(<<[item_name |-> "cookie", quantity |-> 3]>>,
                <<[item_name |-> "cookie", production_minutes |-> 30,
                   time_ratio_percent |-> 9600, item_cost |-> 10000,
                   suggested_price |-> 106000, profit |-> NaN]>>)
         = <<[item_name |-> "cookie", quantity |-> 3, total_cost |-> 30000,
              total_price |-> 318000, total_profit |-> 288000]>>

\* two items were selected, the first with quantity 0: one line, of the second
C5_Witness ==
    /\ pc = "idle"
    /\ event[1] = "calculate"
    /\ Len(quantities) = 2
    /\ quantities[1].quantity = 0
    /\ quantities[2].quantity > 0
    /\ Len(results) = 1
    /\ results[1].item_name = quantities[2].item_name
    /\ results[1].total_profit > 0

\* C6: totalizing a selection whose item has no price in the price table (no
\* record, or a record without a numeric cost or price) fails; it yields no
\* result row for that item.
C6_UnpricedItemHasNoResultRow ==
    pc = "idle" =>
        \A k \in 1..Len(results) :
            \E j \in 1..Len(time_cost.rows) :
                /\ time_cost.rows[j].item_name = results[k].item_name
                /\ time_cost.rows[j].item_cost # NaN
                /\ time_cost.rows[j].suggested_price # NaN

\* C7: load_data never propagates a read error to its caller.
C7_LoadDataNeverRaises == load_result # "raised"

\* C8: a recipe-line add/update with quantity 0 or with an empty item name
\* leaves the recipe lines as they were, and manage_items writes no other
\* store.
C8_RejectedItemWritesNothing ==
    [][(pc = "items" /\ event'[1] = "item_upsert"
           /\ (event'[4] = 0 \/ event'[2] = ""))
        => UNCHANGED <<items, ingredients, time_cost, rate>>]_vars

\* a submission with quantity 0 has been handled while recipe lines exist
C8_Witness ==
    /\ pc = "time_cost"
    /\ event[1] = "item_upsert"
    /\ event[4] = 0
    /\ event[2] # ""
    /\ items # <<>>

\* C9: the bulk refresh is idempotent: with unchanged ingredients, recipe
\* lines and rate, a second run leaves the records of the first run, also
\* when the first run starts from an empty time-cost store.
C9_BulkRefreshIdempotent ==
    \A r \in Rates :
        LET once == UpdateAllTimeCosts(time_cost, items, ingredients, r)
        IN  UpdateAllTimeCosts(once, items, ingredients, r) = once

\* the bulk refresh has run from an empty store and created the records
C9_Witness ==
    /\ pc = "selling"
    /\ event[1] = "save_rate"
    /\ event[2] > 0
    /\ Len(time_cost.rows) = 2
    /\ \A i \in 1..2 : time_cost.rows[i].production_minutes = 0
    /\ UpdateAllTimeCosts([profit_col |-> FALSE, rows |-> <<>>], items, ingredients, rate)
         = time_cost

\* C10: every record that carries a profit value, shown or persisted, has
\* profit = suggested_price - item_cost.
C10_ProfitIsPriceMinusCost ==
    /\ \A i \in 1..Len(displayed) :
          displayed[i].profit = displayed[i].suggested_price - displayed[i].item_cost
    /\ \A i \in 1..Len(time_cost.rows) :
          LET row == time_cost.rows[i] IN
          (time_cost.profit_col /\ row.profit # NaN
             /\ row.suggested_price # NaN /\ row.item_cost # NaN)
            => row.profit = row.suggested_price - row.item_cost

\* the save-rate button has just been handled: update_all_time_costs ran
BulkRefreshStep == pc = "time_cost" /\ event'[1] = "save_rate"

\* the records before and after the step name the same items, in the same
\* rows, with the same production_minutes
SameRecordsAndMinutes ==
    /\ Len(time_cost'.rows) = Len(time_cost.rows)
    /\ \A i \in 1..Len(time_cost.rows) :
          /\ time_cost'.rows[i].item_name = time_cost.rows[i].item_name
          /\ time_cost'.rows[i].production_minutes = time_cost.rows[i].production_minutes

\* C11 as stated: the bulk refresh only recomputes derived fields: the item
\* names that have a record and each record's production_minutes are the same
\* after it as before it; it creates no record and removes none.
C11_BulkRefreshKeepsRecords ==
    [][BulkRefreshStep => SameRecordsAndMinutes]_vars

\* C11 as amended: on a non-empty time-cost store the bulk refresh keeps the
\* item names and each record's production_minutes, creating and removing no
\* record; on an empty store it creates, when there are recipe lines and
\* ingredients, one record with production_minutes 0 for every item that has
\* a recipe line, and nothing otherwise.
C11_BulkRefreshKeepsOrSeedsRecords ==
    [][BulkRefreshStep =>
         IF time_cost.rows # <<>>
         THEN SameRecordsAndMinutes
         ELSE IF items # <<>> /\ ingredients # <<>>
              THEN /\ {time_cost'.rows[j].item_name : j \in 1..Len(time_cost'.rows)}
                        = {items[i].item_name : i \in 1..Len(items)}
                   /\ Len(time_cost'.rows)
                        = Cardinality({items[i].item_name : i \in 1..Len(items)})
                   /\ \A j \in 1..Len(time_cost'.rows) :
                         time_cost'.rows[j].production_minutes = 0
              ELSE time_cost'.rows = <<>>]_vars

\* the bulk refresh has run on records that existed before (a created record
\* has production_minutes 0), one of them of an item without a recipe line
C11_Witness ==
    /\ pc = "selling"
    /\ event[1] = "save_rate"
    /\ items # <<>> /\ ingredients # <<>>
    /\ Len(time_cost.rows) = 2
    /\ \E i \in 1..2 :
          /\ time_cost.rows[i].production_minutes > 0
          /\ time_cost.rows[i].time_ratio_percent
               = time_cost.rows[i].production_minutes * event[2]
    /\ \E i \in 1..2 :
          \A k \in 1..Len(items) : items[k].item_name # time_cost.rows[i].item_name

====
